---- MODULE Spec2Model ----
(***************************************************************************)
(* Model of the synthetic bridge of TrixelServiceBridges:                  *)
(*   - SimulationManager (simulation_manager.py): load / generate / run /  *)
(*     store / stop over a population of simulation clients, across        *)
(*     process restarts that share the pickle file;                        *)
(*   - SkewedSimulationClient.get_updates (skewed_client.py): the skew     *)
(*     chain with its dropout and retention windows.                       *)
(* Spec is the manager's state machine, SpecSkew the skewed client's.      *)
(***************************************************************************)
EXTENDS Integers, Sequences, FiniteSets, TLC

VARIABLES
    \* ---- process / SimulationManager ----
    pc,               \* position of the process (see PcValues)
    runs,             \* number of process starts so far
    bridge_config,    \* BridgeConfig of the current process
    generate_clients, \* argument of SimulationManager.__init__
    delete,           \* argument of SimulationManager.run
    file,             \* content of the pickle file at pickle_file_path
    clients,          \* SimulationManager.clients
    tasks,            \* run(): the coroutines, as population positions
    running_tasks,    \* run(): number of coroutines handed to the TaskGroup
    task_state,       \* state of each coroutine / asyncio task of `tasks`
    aborting,         \* TaskGroup._aborting
    \* ---- SkewedSimulationClient ----
    skew_config,             \* the SkewedClientSimulationConfig of the client
    now,                     \* datetime.now() of the latest get_updates call
    _dropout_end_time,       \* dict sensor -> end of the dropout window
    _value_retention_end_time, \* dict sensor -> end of the retention window
    _retained_values,        \* dict sensor -> retained value
    _last_day_age,           \* day progress seen by the previous call
    _daily_bias,             \* current daily bias
    updates,                 \* mapping returned by the latest call
    trace,                   \* what the latest call did (per sensor)
    \* ---- sample_location ----
    sl_config,        \* argument config of the call
    sl_index,         \* argument index of the call
    sl_max_index,     \* argument max_index of the call
    sl_draw,          \* the (latitude, longitude) the generator drew
    sl_result,        \* what the call did: not called, returned, raised
    \* ---- the configuration objects of the process ----
    heap,             \* the ClientSimulationConfig objects, by reference
    template_ref,     \* reference of bridge_config.client_simulation_config
    objects           \* self.clients by reference: for each client its
                      \* class, its _config and the reference of its
                      \* _client_simulation_config

mgr_vars == <<pc, runs, bridge_config, generate_clients, delete, file, clients,
              tasks, running_tasks, task_state, aborting>>

skew_vars == <<skew_config, now, _dropout_end_time, _value_retention_end_time,
               _retained_values, _last_day_age, _daily_bias, updates, trace>>

sampler_vars == <<sl_config, sl_index, sl_max_index, sl_draw, sl_result>>

heap_vars == <<heap, template_ref, objects>>

vars == <<mgr_vars, skew_vars, sampler_vars, heap_vars>>

\* Python's None, and a value that is not None.  Optional values are
\* wrapped so that None compares with every kind of value.
None == <<>>

Some(x) == <<x>>

Val(o) == o[1]

Max(a, b) == IF a >= b THEN a ELSE b

Min(a, b) == IF a <= b THEN a ELSE b

Range(s) == {s[x] : x \in DOMAIN s}

(***************************************************************************)
(* Bounds of the model.                                                    *)
(***************************************************************************)
\* largest target_client_count of a bridge configuration
MaxTarget == 2

\* number of process starts (each start is load, generate, run, store)
MaxRuns == 2

(***************************************************************************)
(* Value generation policies (config_schema.py) and sample_value.          *)
(* A policy is [type, a, b]: fixed(value = a), uniform_random(min = a,     *)
(* max = b), normal_random(mean = a, deviation = b).  Samples are          *)
(* integers; a normal draw is cut to mean +/- deviation.                   *)
(***************************************************************************)
FixedValue(v) == [type |-> "fixed", a |-> v, b |-> v]

UniformRandom(lo, hi) == [type |-> "uniform_random", a |-> lo, b |-> hi]

NormalRandom(mean, dev) == [type |-> "normal_random", a |-> mean, b |-> dev]

\* the set of values one call of sample_value can return
sample_value(config) ==
    CASE config.type = "fixed" -> {config.a}
      [] config.type = "uniform_random" -> config.a .. config.b
      [] config.type = "normal_random" -> (config.a - config.b) .. (config.a + config.b)

FixedLocation(lat, lon) == [type |-> "fixed", latitude |-> lat, longitude |-> lon]

\* an area is a pair of corners, a corner a pair <<latitude, longitude>>
GridLocation(corner0, corner1) == [type |-> "grid", area |-> <<corner0, corner1>>]

UniformRandomLocation(corner0, corner1) ==
    [type |-> "uniform_random", area |-> <<corner0, corner1>>]

NormalRandomLocation(lat, lon, lat_dev, lon_dev) ==
    [type |-> "normal_random", latitude |-> lat, longitude |-> lon,
     latitude_deviation |-> lat_dev, longitude_deviation |-> lon_dev]

\* Python's a % b: the remainder has the sign of the divisor
PyMod(a, b) == IF b > 0 THEN a % b ELSE -((-a) % (-b))

\* a wrap that clamps to the range
clamp_latitude(latitude) == Max(-90, Min(90, latitude))

\* sample_location, normal_random: the latitude returned for a draw
wrap_latitude(latitude) ==
    IF latitude > 90 THEN -90 + PyMod(latitude, 90)
    ELSE IF latitude < -90 THEN 90 + PyMod(latitude, -90)
    ELSE latitude

\* sample_location, normal_random: the longitude returned for a draw
wrap_longitude(longitude) ==
    IF longitude > 180 THEN -180 + PyMod(longitude, 180)
    ELSE IF longitude < -180 THEN 180 + PyMod(longitude, -180)
    ELSE longitude

\* the farthest a normal draw of a coordinate lies from the mean, in
\* deviations
MaxSigma == 4

\* the draws of rng.normal(loc = mean, scale = deviation) the model makes
NormalDraws(mean, deviation) ==
    {mean + q * deviation : q \in -MaxSigma .. MaxSigma}

\* int(np.ceil(np.sqrt(x)))
CeilSqrt(x) == CHOOSE n \in 0 .. x : n * n >= x /\ \A m \in 0 .. n - 1 : m * m < x

\* np.linspace(start, stop, num): num evenly spaced values from start to
\* stop, given as multiples of 1 / max(num - 1, 1)
linspace(start, stop, num) ==
    [x \in 1 .. num |-> start * Max(num - 1, 1) + (x - 1) * (stop - start)]

\* a grid that reads the flattened mesh column by column
column_major(matrix) ==
    LET rows == Len(matrix)
        cols == IF rows = 0 THEN 0 ELSE Len(matrix[1])
    IN  [x \in 1 .. rows * cols |-> matrix[((x - 1) % rows) + 1][((x - 1) \div rows) + 1]]

\* np.meshgrid(x, y): the two matrices with one row per element of y and
\* one column per element of x
meshgrid(x, y) ==
    <<[r \in 1 .. Len(y) |-> [c \in 1 .. Len(x) |-> x[c]]],
      [r \in 1 .. Len(y) |-> [c \in 1 .. Len(x) |-> y[r]]]>>

\* ndarray.ravel(): the rows of the matrix one after the other
ravel(matrix) ==
    LET rows == Len(matrix)
        cols == IF rows = 0 THEN 0 ELSE Len(matrix[1])
    IN  [x \in 1 .. rows * cols |-> matrix[((x - 1) \div cols) + 1][((x - 1) % cols) + 1]]

\* what a call of sample_location did
NotCalled == [state |-> "none", coordinate |-> <<0, 0>>]

Returned(coordinate) == [state |-> "returned", coordinate |-> coordinate]

IndexError == [state |-> "raised", coordinate |-> <<0, 0>>]

\* sample_location, grid: the coordinate at position index of the
\* flattened mesh, or the IndexError of the subscript
GridCoordinate(config, index, max_index) ==
    LET num == CeilSqrt(max_index)
        latitude_linspace == linspace(config.area[1][1], config.area[2][1], num)
        longitude_linspace == linspace(config.area[1][2], config.area[2][2], num)
        mesh == meshgrid(latitude_linspace, longitude_linspace)
        coordinates == <<ravel(mesh[1]), ravel(mesh[2])>>
    IN  IF index + 1 \in DOMAIN coordinates[1]
          THEN Returned(<<coordinates[1][index + 1], coordinates[2][index + 1]>>)
          ELSE IndexError

\* sample_location: the draws a call can make and what it does with each
SampleLocation(config, index, max_index) ==
    CASE config.type = "fixed" ->
           {[draw |-> <<config.latitude, config.longitude>>,
             result |-> Returned(<<config.latitude, config.longitude>>)]}
      [] config.type = "uniform_random" ->
           {[draw |-> <<latitude, longitude>>, result |-> Returned(<<latitude, longitude>>)] :
              latitude \in config.area[1][1] .. config.area[2][1],
              longitude \in config.area[1][2] .. config.area[2][2]}
      [] config.type = "normal_random" ->
           {[draw |-> <<latitude, longitude>>,
             result |-> Returned(<<wrap_latitude(latitude), wrap_longitude(longitude)>>)] :
              latitude \in NormalDraws(config.latitude, config.latitude_deviation),
              longitude \in NormalDraws(config.longitude, config.longitude_deviation)}
      [] config.type = "grid" ->
           {[draw |-> <<0, 0>>, result |-> GridCoordinate(config, index, max_index)]}

\* the set of coordinates one call of sample_location can return
sample_location(config, index, max_index) ==
    {r.result.coordinate :
        r \in {x \in SampleLocation(config, index, max_index) :
                  x.result.state = "returned"}}

(***************************************************************************)
(* Simulation configurations (config_schema.py).  One record shape for all *)
(* config classes; a field a class does not have is None.                  *)
(***************************************************************************)
BaseSimulationConfig ==
    [client_class |-> "blank", client_index |-> 0, max_client_index |-> 0,
     k |-> None,
     location_generation |-> None, k_generation |-> None,
     max_depth_generation |-> None,
     bias_generation |-> None, bias |-> None,
     positive_daytime_bias_impact_generation |-> None,
     positive_daytime_bias_impact |-> None,
     sensor_accuracy |-> None, sensor_undefined_accuracy_chance |-> None,
     sensor_accuracy_generation |-> None,
     peak_time |-> None, peak_time_generation |-> None,
     min_temperature |-> None, min_temperature_generation |-> None,
     max_temperature |-> None, max_temperature_generation |-> None]

BlankTemplate == [BaseSimulationConfig EXCEPT !.client_class = "blank", !.k = Some(3)]

SkewedGradientTemplate ==
    [BaseSimulationConfig EXCEPT
        !.client_class = "skewed_coordinate_gradient",
        !.location_generation = Some(FixedLocation(0, 0)),
        !.k_generation = Some(FixedValue(3)),
        !.max_depth_generation = Some(FixedValue(24)),
        !.bias_generation = Some(UniformRandom(1, 2))]

SkewedDiurnalTemplate ==
    [BaseSimulationConfig EXCEPT
        !.client_class = "skewed_diurnal_approximation",
        !.location_generation = Some(FixedLocation(10, 20)),
        !.k_generation = Some(FixedValue(1)),
        !.max_depth_generation = Some(FixedValue(30)),
        !.positive_daytime_bias_impact_generation = Some(FixedValue(1)),
        !.sensor_undefined_accuracy_chance = Some(1),
        !.sensor_accuracy_generation = Some(FixedValue(2)),
        !.peak_time_generation = Some(FixedValue(5)),
        !.min_temperature_generation = Some(FixedValue(0)),
        !.max_temperature_generation = Some(FixedValue(9))]

\* the templates a bridge configuration is drawn from
Templates == {BlankTemplate, SkewedGradientTemplate, SkewedDiurnalTemplate}

\* BridgeConfig: client_spawn_delay is TRUE for a timedelta, FALSE for None
BridgeConfigs ==
    [target_client_count : 1 .. MaxTarget,
     client_spawn_delay : BOOLEAN,
     client_simulation_config : Templates]

(***************************************************************************)
(* Clients.  A client is the Python object: its class, its ClientConfig    *)
(* (_config), its simulation config and the kill flag of the polling       *)
(* client.                                                                 *)
(***************************************************************************)
ClientConfig(location, k, max_depth) ==
    [location |-> location, k |-> k, max_depth |-> max_depth, ms_config |-> None]

Client(cls, config, sim) ==
    [cls |-> cls, _config |-> config, _client_simulation_config |-> sim,
     killed |-> FALSE]

\* simulation_class_lookup.py: the keys of simulation_client_class_lookup
simulation_client_class_lookup ==
    {"blank", "coordinate_gradient", "skewed_coordinate_gradient",
     "diurnal_approximation", "skewed_diurnal_approximation"}

\* the lookup of a tag the table does not hold
KeyError == "KeyError"

\* a lookup that falls back to the blank client for a tag it does not hold
get_simulation_class_or_blank(config_str) ==
    IF config_str \in simulation_client_class_lookup THEN config_str ELSE "blank"

\* get_simulation_class: the class of a tag
get_simulation_class(config_str) ==
    IF config_str \in simulation_client_class_lookup THEN config_str ELSE KeyError

\* a constructor that samples the bias again although it is already set
SkewedInitResample(sim) ==
    {[sim EXCEPT !.bias = b] :
        b \in (IF sim.bias_generation # None
                  THEN {Some(v) : v \in sample_value(Val(sim.bias_generation))}
                  ELSE {sim.bias})}

\* SkewedSimulationClient.__init__: resolve bias and daytime bias impact
SkewedInit(sim) ==
    {[sim EXCEPT !.bias = b, !.positive_daytime_bias_impact = p] :
        b \in (IF sim.bias = None /\ sim.bias_generation # None
                  THEN {Some(v) : v \in sample_value(Val(sim.bias_generation))}
                  ELSE {sim.bias}),
        p \in (IF sim.positive_daytime_bias_impact = None
                     /\ sim.positive_daytime_bias_impact_generation # None
                  THEN {Some(v) : v \in sample_value(
                            Val(sim.positive_daytime_bias_impact_generation))}
                  ELSE {sim.positive_daytime_bias_impact})}

\* DiurnalApproximationSimulationClient.__init__: the sensor accuracy
DiurnalAccuracy(sim) ==
    IF sim.sensor_accuracy # None THEN {sim.sensor_accuracy}
    ELSE IF sim.sensor_undefined_accuracy_chance = None THEN {Some(-1)}
    ELSE {Some(-1)} \cup {Some(Max(0, s)) :
                             s \in sample_value(Val(sim.sensor_accuracy_generation))}

\* sample the field unless it is already set
Resolve(field, generation) ==
    IF field = None THEN {Some(v) : v \in sample_value(Val(generation))}
    ELSE {field}

\* DiurnalApproximationSimulationClient.__init__: resolve the lazy fields
DiurnalInit(sim) ==
    {[sim EXCEPT !.sensor_accuracy = a, !.peak_time = pt,
                 !.min_temperature = lo, !.max_temperature = hi] :
        a \in DiurnalAccuracy(sim),
        pt \in Resolve(sim.peak_time, sim.peak_time_generation),
        lo \in Resolve(sim.min_temperature, sim.min_temperature_generation),
        hi \in Resolve(sim.max_temperature, sim.max_temperature_generation)}


\* a constructor that takes the sampled fan-out and depth as they are
RandomBaseInitUnclamped(sim, config) ==
    IF config # None THEN {Val(config)}
    ELSE {ClientConfig(loc, Some(k), Some(d)) :
            loc \in sample_location(Val(sim.location_generation), sim.client_index,
                                    sim.max_client_index),
            k \in sample_value(Val(sim.k_generation)),
            d \in sample_value(Val(sim.max_depth_generation))}

\* RandomBaseSimulationClient.__init__: use the config or generate one
RandomBaseInit(sim, config) ==
    IF config # None THEN {Val(config)}
    ELSE {ClientConfig(loc, Some(Max(k, 2)), Some(Max(1, Min(24, d)))) :
            loc \in sample_location(Val(sim.location_generation), sim.client_index,
                                    sim.max_client_index),
            k \in sample_value(Val(sim.k_generation)),
            d \in sample_value(Val(sim.max_depth_generation))}

\* BlankSimulationClient.__init__
BlankInit(sim, config) ==
    IF config # None THEN {Val(config)}
    ELSE {ClientConfig(<<0, 0>>, sim.k, None)}

\* client_class(config=config, client_simulation_config=sim): the clients
\* the constructor of class cls can return
Instantiate(cls, sim, config) ==
    CASE cls = "blank" ->
           {Client(cls, c, sim) : c \in BlankInit(sim, config)}
      [] cls = "coordinate_gradient" ->
           {Client(cls, c, sim) : c \in RandomBaseInit(sim, config)}
      [] cls = "skewed_coordinate_gradient" ->
           UNION {{Client(cls, c, s) : c \in RandomBaseInit(s, config)} :
                    s \in SkewedInit(sim)}
      [] cls = "diurnal_approximation" ->
           UNION {{Client(cls, c, s) : c \in RandomBaseInit(s, config)} :
                    s \in DiurnalInit(sim)}
      [] cls = "skewed_diurnal_approximation" ->
           UNION {{Client(cls, c, s) : c \in RandomBaseInit(s, config)} :
                    s \in UNION {DiurnalInit(s1) : s1 \in SkewedInit(sim)}}

(***************************************************************************)
(* The pickle file.  state is "absent" (no file), "corrupt" (a file pickle *)
(* cannot load: truncated, partial or foreign) or "ok" (a list of          *)
(* (ClientConfig, ClientSimulationConfig) pairs).                          *)
(***************************************************************************)
Absent == [state |-> "absent", configs |-> <<>>]

Corrupt == [state |-> "corrupt", configs |-> <<>>]

Pickled(client_configs) == [state |-> "ok", configs |-> client_configs]


\* a store() that writes the size of the population as max_client_index
SnapshotRetargeted(cs) ==
    [p \in 1 .. Len(cs) |->
        <<cs[p]._config,
          [cs[p]._client_simulation_config EXCEPT !.max_client_index = Len(cs)]>>]

\* store(): the list client_configs built from the population
Snapshot(cs) ==
    [p \in 1 .. Len(cs) |-> <<cs[p]._config, cs[p]._client_simulation_config>>]

\* an except clause that catches every failure of open / pickle.load
AnyReadError(f) == f.state # "ok"

\* load(): the failures of open / pickle.load that the except clause catches
FileNotFound(f) == f.state = "absent"

\* load(): the clients the loop over the unpickled configs can build
RECURSIVE LoadClients(_)
LoadClients(configs) ==
    IF configs = <<>> THEN {<<>>}
    ELSE LET config == Head(configs)[1]
             client_simulation_config == Head(configs)[2]
             client_class == get_simulation_class(client_simulation_config.client_class)
         IN  {<<c>> \o rest :
                 c \in Instantiate(client_class, client_simulation_config, Some(config)),
                 rest \in LoadClients(Tail(configs))}

\* load(): some stored tag is not in the lookup table (KeyError)
LoadKeyError(configs) ==
    \E x \in DOMAIN configs : get_simulation_class(configs[x][2].client_class) = KeyError

\* a generate() that numbers the new clients from 1
GeneratedConfigFromOne(template, i, target_client_count) ==
    [template EXCEPT !.client_index = i + 1, !.max_client_index = target_client_count]

\* generate(): the config of the client generated for index i
GeneratedConfig(template, i, target_client_count) ==
    [template EXCEPT !.client_index = i, !.max_client_index = target_client_count]

\* generate(): the populations the loop can build on top of cs
RECURSIVE GenerateClients(_, _)
GenerateClients(cs, bc) ==
    IF Len(cs) >= bc.target_client_count THEN {cs}
    ELSE LET client_simulation_class ==
                 get_simulation_class(bc.client_simulation_config.client_class)
             client_simulation_config ==
                 GeneratedConfig(bc.client_simulation_config, Len(cs),
                                 bc.target_client_count)
         IN  UNION {GenerateClients(Append(cs, c), bc) :
                      c \in Instantiate(client_simulation_class,
                                        client_simulation_config, None)}

\* a run() without the check against target_client_count
RunTasksAll(cs, target_client_count) == [j \in 1 .. Len(cs) |-> j]

\* run(): the coroutines of the first loop, as population positions
RunTasks(cs, target_client_count) ==
    [j \in 1 .. Min(Len(cs), target_client_count) |-> j]

\* a run() that drops only the first deleted client
WithoutFirstDeleted(cs) ==
    LET D == {p \in DOMAIN cs : cs[p]._config.ms_config = None}
    IN  IF D = {} THEN cs
        ELSE LET d == CHOOSE p \in D : \A q \in D : p <= q
             IN  SubSeq(cs, 1, d - 1) \o SubSeq(cs, d + 1, Len(cs))

\* run(): the population without the clients collected in deleted_clients
WithoutDeleted(cs) ==
    SelectSeq(cs, LAMBDA c : c._config.ms_config # None)

\* the task has ended: returned, raised or was cancelled
Ended(st) == st \in {"done", "failed", "cancelled"}

\* a join that waits for the first task only
FirstTaskEnded(ts, launched) == launched = 0 \/ Ended(ts[1])

\* TaskGroup.__aexit__: every task handed to the group has ended
AllTasksEnded(ts, launched) == \A j \in 1 .. launched : Ended(ts[j])

(***************************************************************************)
(* The process: main() builds the manager (load, generate) and runs it.    *)
(* pc is "init" (process started, manager not built), "loaded",            *)
(* "generated" (manager built), "spawning" (run() inside the TaskGroup     *)
(* body, asleep between two launches), "joining" (TaskGroup.__aexit__),    *)
(* "storing" (store() has opened the file), "stopped" (run() returned),    *)
(* "failed" (__init__ raised), "run_failed" (the TaskGroup raised),        *)
(* "store_failed" (store() raised).                                        *)
(***************************************************************************)
Terminal == {"stopped", "failed", "run_failed", "store_failed"}

\* the state of the manager's variables when a process starts
ProcessStart(bc, gc, f) ==
    /\ pc = "init"
    /\ bridge_config = bc
    /\ generate_clients = gc
    /\ delete = FALSE
    /\ file = f
    /\ clients = <<>>
    /\ tasks = <<>>
    /\ running_tasks = 0
    /\ task_state = <<>>
    /\ aborting = FALSE

\* SimulationManager.load, called by __init__
Load ==
    /\ pc = "init"
    /\ IF FileNotFound(file)
         THEN clients' = <<>> /\ pc' = "loaded"
         ELSE IF file.state # "ok" \/ LoadKeyError(file.configs)
                THEN clients' = <<>> /\ pc' = "failed"
                ELSE /\ \E cs \in LoadClients(file.configs) : clients' = cs
                     /\ pc' = "loaded"
    /\ UNCHANGED <<heap_vars, sampler_vars, skew_vars, runs, bridge_config, generate_clients, delete, file, tasks,
                   running_tasks, task_state, aborting>>



\* a generate() that builds the whole population anew
GenerateFromScratch ==
    /\ pc = "loaded"
    /\ IF generate_clients
         THEN \E cs \in GenerateClients(<<>>, bridge_config) : clients' = cs
         ELSE clients' = clients
    /\ pc' = "generated"
    /\ UNCHANGED <<heap_vars, sampler_vars, skew_vars, runs, bridge_config, generate_clients, delete, file, tasks,
                   running_tasks, task_state, aborting>>

\* a generate() that does not wait for load() to complete
GenerateBeforeLoad ==
    /\ pc \in {"init", "loaded"}
    /\ IF generate_clients
         THEN \E cs \in GenerateClients(clients, bridge_config) : clients' = cs
         ELSE clients' = clients
    /\ pc' = "generated"
    /\ UNCHANGED <<heap_vars, sampler_vars, skew_vars, runs, bridge_config, generate_clients, delete, file, tasks,
                   running_tasks, task_state, aborting>>

\* SimulationManager.generate, called by __init__ if generate_clients
Generate ==
    /\ pc = "loaded"
    /\ IF generate_clients
         THEN \E cs \in GenerateClients(clients, bridge_config) : clients' = cs
         ELSE clients' = clients
    /\ pc' = "generated"
    /\ UNCHANGED <<heap_vars, sampler_vars, skew_vars, runs, bridge_config, generate_clients, delete, file, tasks,
                   running_tasks, task_state, aborting>>

\* a run() that sleeps before it creates a task
RunStartSleepFirst ==
    /\ pc = "generated"
    /\ \E d \in BOOLEAN : delete' = d
    /\ tasks' = RunTasks(clients, bridge_config.target_client_count)
    /\ LET n == Len(tasks')
           launched == IF bridge_config.client_spawn_delay THEN 0 ELSE n
       IN  /\ running_tasks' = launched
           /\ task_state' = [j \in 1 .. n |->
                                IF j <= launched THEN "running" ELSE "created"]
           /\ pc' = IF bridge_config.client_spawn_delay /\ n > 0
                      THEN "spawning" ELSE "joining"
    /\ aborting' = FALSE
    /\ UNCHANGED <<heap_vars, sampler_vars, skew_vars, runs, bridge_config, generate_clients, file, clients>>

\* SimulationManager.run up to its first suspension: the coroutines are
\* built, the TaskGroup is entered and the first task created; without a
\* spawn delay the loop creates every task before it suspends
RunStart ==
    /\ pc = "generated"
    /\ \E d \in BOOLEAN : delete' = d
    /\ tasks' = RunTasks(clients, bridge_config.target_client_count)
    /\ LET n == Len(tasks')
           launched == IF bridge_config.client_spawn_delay THEN Min(1, n) ELSE n
       IN  /\ running_tasks' = launched
           /\ task_state' = [j \in 1 .. n |->
                                IF j <= launched THEN "running" ELSE "created"]
           /\ pc' = IF bridge_config.client_spawn_delay /\ n > 0
                      THEN "spawning" ELSE "joining"
    /\ aborting' = FALSE
    /\ UNCHANGED <<heap_vars, sampler_vars, skew_vars, runs, bridge_config, generate_clients, file, clients>>

\* run(): asyncio.sleep returns inside the TaskGroup body; the loop goes on
\* with the next task, ends, or is cancelled by the aborting group
SpawnNext ==
    /\ pc = "spawning"
    /\ IF aborting
         THEN pc' = "joining" /\ UNCHANGED <<running_tasks, task_state>>
         ELSE IF running_tasks < Len(tasks)
                THEN /\ running_tasks' = running_tasks + 1
                     /\ task_state' = [task_state EXCEPT ![running_tasks + 1] = "running"]
                     /\ pc' = "spawning"
                ELSE pc' = "joining" /\ UNCHANGED <<running_tasks, task_state>>
    /\ UNCHANGED <<heap_vars, sampler_vars, skew_vars, runs, bridge_config, generate_clients, delete, file, clients,
                   tasks, aborting>>

\* a running client task registers at its measurement server
ClientRegister(j) ==
    /\ j \in 1 .. running_tasks
    /\ task_state[j] = "running"
    /\ clients[tasks[j]]._config.ms_config = None
    /\ clients' = [clients EXCEPT ![tasks[j]]._config.ms_config = Some("registered")]
    /\ UNCHANGED <<heap_vars, sampler_vars, skew_vars, pc, runs, bridge_config, generate_clients, delete, file, tasks,
                   running_tasks, task_state, aborting>>

\* a running client task, run with delete, deletes itself from the network
ClientDelete(j) ==
    /\ j \in 1 .. running_tasks
    /\ task_state[j] = "running"
    /\ delete
    /\ clients[tasks[j]]._config.ms_config # None
    /\ clients' = [clients EXCEPT ![tasks[j]]._config.ms_config = None]
    /\ UNCHANGED <<heap_vars, sampler_vars, skew_vars, pc, runs, bridge_config, generate_clients, delete, file, tasks,
                   running_tasks, task_state, aborting>>

\* a running client task returns
ClientReturn(j) ==
    /\ j \in 1 .. running_tasks
    /\ task_state[j] = "running"
    /\ task_state' = [task_state EXCEPT ![j] = "done"]
    /\ UNCHANGED <<heap_vars, sampler_vars, skew_vars, pc, runs, bridge_config, generate_clients, delete, file, clients,
                   tasks, running_tasks, aborting>>

\* a running client task raises
ClientRaise(j) ==
    /\ j \in 1 .. running_tasks
    /\ task_state[j] = "running"
    /\ task_state' = [task_state EXCEPT ![j] = "failed"]
    /\ UNCHANGED <<heap_vars, sampler_vars, skew_vars, pc, runs, bridge_config, generate_clients, delete, file, clients,
                   tasks, running_tasks, aborting>>

\* the task states after TaskGroup._abort: every task that has not ended
\* is asked to cancel
Abort(ts, launched) ==
    [j \in DOMAIN ts |->
        IF j <= launched /\ ts[j] = "running" THEN "cancelling" ELSE ts[j]]

\* TaskGroup._on_task_done for a task that raised: the group aborts
OnTaskDone ==
    /\ pc \in {"spawning", "joining"}
    /\ ~aborting
    /\ \E j \in 1 .. running_tasks : task_state[j] = "failed"
    /\ aborting' = TRUE
    /\ task_state' = Abort(task_state, running_tasks)
    /\ UNCHANGED <<heap_vars, sampler_vars, skew_vars, pc, runs, bridge_config, generate_clients, delete, file, clients,
                   tasks, running_tasks>>

\* a task that was asked to cancel ends cancelled
ClientCancelled(j) ==
    /\ j \in 1 .. running_tasks
    /\ task_state[j] = "cancelling"
    /\ task_state' = [task_state EXCEPT ![j] = "cancelled"]
    /\ UNCHANGED <<heap_vars, sampler_vars, skew_vars, pc, runs, bridge_config, generate_clients, delete, file, clients,
                   tasks, running_tasks, aborting>>

\* a TaskGroup that lets run() go on before its tasks have ended
JoinedEarly == pc = "joining"

\* the TaskGroup lets run() go on: every task has ended and every failure
\* has been seen by the group
Joined ==
    /\ pc = "joining"
    /\ AllTasksEnded(task_state, running_tasks)
    /\ (\E j \in 1 .. running_tasks : task_state[j] = "failed") => aborting

\* run() after the TaskGroup: the group raises the failures of its tasks,
\* or run() drops the deleted clients and calls store(), which opens the
\* file for writing (truncating it) or fails to
RunJoin ==
    /\ Joined
    /\ IF \E j \in 1 .. running_tasks : task_state[j] = "failed"
         THEN pc' = "run_failed" /\ UNCHANGED <<clients, file>>
         ELSE /\ clients' = IF delete THEN WithoutDeleted(clients) ELSE clients
              /\ \/ file' = Corrupt /\ pc' = "storing"
                 \/ file' = file /\ pc' = "store_failed"
    /\ UNCHANGED <<heap_vars, sampler_vars, skew_vars, runs, bridge_config, generate_clients, delete, tasks,
                   running_tasks, task_state, aborting>>

\* store(): pickle.dump and close
StoreDump ==
    /\ pc = "storing"
    /\ file' = Pickled(Snapshot(clients))
    /\ pc' = "stopped"
    /\ UNCHANGED <<heap_vars, sampler_vars, skew_vars, runs, bridge_config, generate_clients, delete, clients, tasks,
                   running_tasks, task_state, aborting>>


\* a store() that swallows the failure of pickle.dump and returns
StoreFailSwallowed ==
    /\ pc = "storing"
    /\ pc' = "stopped"
    /\ UNCHANGED <<heap_vars, sampler_vars, skew_vars, runs, bridge_config, generate_clients, delete, file, clients,
                   tasks, running_tasks, task_state, aborting>>

\* store(): pickle.dump raises, the file stays as far as it was written
StoreFail ==
    /\ pc = "storing"
    /\ pc' = "store_failed"
    /\ UNCHANGED <<heap_vars, sampler_vars, skew_vars, runs, bridge_config, generate_clients, delete, file, clients,
                   tasks, running_tasks, task_state, aborting>>

\* a stop() that kills only the clients whose task has been launched
StopLaunchedOnly ==
    /\ pc \in {"generated", "spawning", "joining"}
    /\ \E p \in 1 .. Len(clients) : ~clients[p].killed
    /\ clients' = [p \in 1 .. Len(clients) |->
                     [clients[p] EXCEPT !.killed = @ \/ p <= running_tasks]]
    /\ UNCHANGED <<heap_vars, sampler_vars, skew_vars, pc, runs, bridge_config, generate_clients, delete, file, tasks,
                   running_tasks, task_state, aborting>>

\* SimulationManager.stop, called by the signal handler of main()
Stop ==
    /\ pc \in {"generated", "spawning", "joining"}
    /\ \E p \in 1 .. Len(clients) : ~clients[p].killed
    /\ clients' = [p \in 1 .. Len(clients) |-> [clients[p] EXCEPT !.killed = TRUE]]
    /\ UNCHANGED <<heap_vars, sampler_vars, skew_vars, pc, runs, bridge_config, generate_clients, delete, file, tasks,
                   running_tasks, task_state, aborting>>

\* the process has ended and main() is started again, with a configuration
\* of its own and the pickle file the last process left (--reset removes
\* it); main() builds the manager with generate_clients at its default
Restart ==
    /\ pc \in Terminal
    /\ runs < MaxRuns
    /\ runs' = runs + 1
    /\ \E bc \in BridgeConfigs, ignore_pickle \in BOOLEAN :
          /\ bridge_config' = bc
          /\ file' = IF ignore_pickle THEN Absent ELSE file
    /\ generate_clients' = TRUE
    /\ pc' = "init"
    /\ delete' = FALSE
    /\ clients' = <<>>
    /\ tasks' = <<>>
    /\ running_tasks' = 0
    /\ task_state' = <<>>
    /\ aborting' = FALSE
    /\ UNCHANGED <<heap_vars, sampler_vars, skew_vars>>

(***************************************************************************)
(* SkewedSimulationClient (skewed_client.py).  Time is counted in ticks,   *)
(* a (squeezed) day has DayLength ticks and the day progress of a call is  *)
(* now % DayLength, in units of 1 / DayLength.  A chance is compared with  *)
(* a draw of rng.uniform(0, 1); both are given in percent.                 *)
(***************************************************************************)
\* the latest time a call of get_updates is made at
MaxTime == 5

\* the longest time between two calls of get_updates
MaxStep == 2

\* ticks per day: timedelta(days=1).total_seconds() / day_squeeze
DayLength == 3

\* the class attribute _last_day_age: timedelta(days=1).total_seconds()
InitialLastDayAge == 86400

\* the sensors of a client: the archetypes create a single sensor
Sensors == {0}

\* the draws of rng.uniform(0, 1) the model tells apart, in percent
UniformDraws == {25, 75}

\* the values the wrapped archetype reports (super().get_updates())
BaseValues == {10, 20}

\* the value skews of a configuration: none; a static bias with noise; a
\* daily bias; a static bias, a daily bias and a daytime bias
ValueSkews ==
    {[bias |-> None, noise_generation |-> None,
      daily_bias_generation |-> None, positive_daytime_bias_impact |-> None],
     [bias |-> Some(1), noise_generation |-> Some(UniformRandom(0, 1)),
      daily_bias_generation |-> None, positive_daytime_bias_impact |-> None],
     [bias |-> None, noise_generation |-> None,
      daily_bias_generation |-> Some(UniformRandom(1, 2)),
      positive_daytime_bias_impact |-> None],
     [bias |-> Some(1), noise_generation |-> None,
      daily_bias_generation |-> Some(UniformRandom(1, 2)),
      positive_daytime_bias_impact |-> Some(2)]}

\* the combinations of the two kinds of skew: a daily bias comes without
\* retention and with dropout and skip both configured or both not
SkewCombined(dc, sc, rc, vs) ==
    vs.daily_bias_generation # None => (rc = None /\ (dc = None <=> sc = None))

\* the skew configurations a client is drawn from
SkewConfigs ==
    {[dropout_chance |-> dc, dropout_period |-> UniformRandom(1, 2),
      skipped_measurement_chance |-> sc,
      value_retain_chance |-> rc, value_retain_period |-> UniformRandom(1, 2),
      daily_bias_generation |-> vs.daily_bias_generation, bias |-> vs.bias,
      positive_daytime_bias_impact |-> vs.positive_daytime_bias_impact,
      noise_generation |-> vs.noise_generation,
      impulse_noise_chance |-> None, impulse_generation |-> FixedValue(5)] :
        <<dc, sc, rc, vs>> \in
            {x \in {None, Some(50)} \X {None, Some(50)} \X {None, Some(50)} \X ValueSkews :
                SkewCombined(x[1], x[2], x[3], x[4])}}


\* a dropout check that never finds the sensor inside a window
NeverInDropout(t, end) == FALSE

\* a dropout check that takes the end of the window into the window
InDropoutInclusive(t, end) == end # None /\ t <= Val(end)

\* now < self._dropout_end_time.get(i, now - timedelta(seconds=1))
InDropout(t, end) == end # None /\ t < Val(end)

\* now < self._value_retention_end_time.get(i, now - timedelta(seconds=1))
InRetention(t, end) == end # None /\ t < Val(end)

\* rng.uniform(0, 1) <= chance
Triggered(u, chance) == u <= Val(chance)

\* the draws of rng.uniform(0, 1) that trigger, and whether one does not
Triggering(chance) == {u \in UniformDraws : Triggered(u, chance)}

NotTriggering(chance) == {u \in UniformDraws : ~Triggered(u, chance)}

\* -np.power((day_age + offset) * spread - spread / 2, 2) + 1: the parabola
\* is at most 1 and, with the random offset and spread, negative or
\* positive at any time of the day
Parabolas == {-1, 1}

\* max(0, parabola)
TimeBiasFactors == {Max(0, parabola) : parabola \in Parabolas}

\* a daytime bias that does not cut the parabola at 0
DaytimeBiasUncut(cfg, value) ==
    {[parabola |-> Some(parabola),
      value |-> value + value * (parabola * Val(cfg.positive_daytime_bias_impact))] :
        parabola \in Parabolas}

\* get_updates: the daytime bias step, applied to the value as skewed so
\* far; the parabola value of the call and the value after the step
DaytimeBias(cfg, value) ==
    {[parabola |-> Some(parabola),
      value |-> value + value * (Max(0, parabola) * Val(cfg.positive_daytime_bias_impact))] :
        parabola \in Parabolas}

\* get_updates: the readings after daily bias, bias, daytime bias, noise
\* and impulse noise, each with the parabola value of the call (None: no
\* daytime bias is configured)
SkewedReadings(cfg, value, daily_bias) ==
    LET v1 == value + daily_bias
        v2 == IF cfg.bias # None THEN v1 + Val(cfg.bias) ELSE v1
        V3 == IF cfg.positive_daytime_bias_impact # None
                THEN DaytimeBias(cfg, v2)
                ELSE {[parabola |-> None, value |-> v2]}
        V4 == IF cfg.noise_generation # None
                THEN {[v3 EXCEPT !.value = @ + n] :
                        v3 \in V3, n \in sample_value(Val(cfg.noise_generation))}
                ELSE V3
    IN  IF cfg.impulse_noise_chance # None
          THEN (IF Triggering(cfg.impulse_noise_chance) # {}
                  THEN {[v4 EXCEPT !.value = @ + m * sign] :
                          v4 \in V4, sign \in {1, -1},
                          m \in sample_value(cfg.impulse_generation)}
                  ELSE {})
               \cup (IF NotTriggering(cfg.impulse_noise_chance) # {} THEN V4 ELSE {})
          ELSE V4

\* get_updates: the values a reading can have after daily bias, bias,
\* daytime bias, noise and impulse noise
SkewedValues(cfg, value, daily_bias) ==
    {r.value : r \in SkewedReadings(cfg, value, daily_bias)}

\* get_updates: the value stored in updates[i] for a reading that was not
\* dropped; the last statement of the loop body stores the fresh value,
\* also over the retained one
EmittedValue(in_retention, retained, value) == value

\* get_updates: the retention step for a reading with the fresh value
RetainSensor(cfg, t, keep, fresh) ==
    LET pass == [keep EXCEPT !.dropped = FALSE, !.what = "passed", !.fresh = fresh,
                             !.value = EmittedValue(FALSE, keep.retained, fresh)]
    IN  IF cfg.value_retain_chance = None THEN {pass}
        ELSE IF InRetention(t, keep.retention_end)
          THEN {[pass EXCEPT !.what = "retained",
                             !.value = EmittedValue(TRUE, keep.retained, fresh)]}
        ELSE (IF Triggering(cfg.value_retain_chance) # {}
                THEN {[pass EXCEPT !.what = "retain_start",
                                   !.retention_end = Some(t + d),
                                   !.retained = Some(fresh), !.period = d] :
                        d \in sample_value(cfg.value_retain_period)}
                ELSE {})
             \cup (IF NotTriggering(cfg.value_retain_chance) # {} THEN {pass} ELSE {})

\* a skip step that is taken after the retention step
SkipSensorLast(cfg, t, daily_bias, keep, value) ==
    LET Rest == UNION {RetainSensor(cfg, t, keep, fresh) :
                         fresh \in SkewedValues(cfg, value, daily_bias)}
    IN  IF cfg.skipped_measurement_chance = None THEN Rest
        ELSE (IF Triggering(cfg.skipped_measurement_chance) # {}
                THEN {[r EXCEPT !.what = "skip", !.dropped = TRUE] : r \in Rest}
                ELSE {})
             \cup (IF NotTriggering(cfg.skipped_measurement_chance) # {}
                     THEN Rest ELSE {})

\* get_updates: the skip step and what follows it
SkipSensor(cfg, t, daily_bias, keep, value) ==
    LET Rest == UNION {RetainSensor(cfg, t, [keep EXCEPT !.parabola = r.parabola],
                                    r.value) :
                         r \in SkewedReadings(cfg, value, daily_bias)}
    IN  IF cfg.skipped_measurement_chance = None THEN Rest
        ELSE (IF Triggering(cfg.skipped_measurement_chance) # {}
                THEN {[keep EXCEPT !.what = "skip"]} ELSE {})
             \cup (IF NotTriggering(cfg.skipped_measurement_chance) # {}
                     THEN Rest ELSE {})

\* get_updates: the outcomes of the loop body for one sensor at time t;
\* d_end, r_end and retained are the sensor's entries of the three dicts
\* (None: no entry), value is the reading of the wrapped archetype
SkewSensor(cfg, t, daily_bias, d_end, r_end, retained, value) ==
    LET keep == [dropped |-> TRUE, dropout_end |-> d_end, retention_end |-> r_end,
                 retained |-> retained, value |-> value, fresh |-> value,
                 what |-> "dropout", period |-> 0, base |-> value,
                 parabola |-> None]
    IN  IF cfg.dropout_chance = None THEN SkipSensor(cfg, t, daily_bias, keep, value)
        ELSE IF InDropout(t, d_end) THEN {keep}
        ELSE (IF Triggering(cfg.dropout_chance) # {}
                THEN {[keep EXCEPT !.dropout_end = Some(t + d),
                                   !.what = "dropout_start", !.period = d] :
                        d \in sample_value(cfg.dropout_period)}
                ELSE {})
             \cup (IF NotTriggering(cfg.dropout_chance) # {}
                     THEN SkipSensor(cfg, t, daily_bias, keep, value) ELSE {})

\* what the latest call did for a sensor: the branch it took (what) and
\* the freshly computed value; and the latest dropout and retention window
\* of the sensor: the time of the call that started it, the period sampled
\* for it and the value retained
NoTrace ==
    [what |-> "none", fresh |-> 0, dropout |-> None, retention |-> None,
     base |-> 0, parabola |-> None]

\* a rollover check that also takes an unchanged day progress for one
DayRolloverOrSame(day_age, last_day_age) == day_age <= last_day_age

\* day_age < self._last_day_age
DayRollover(day_age, last_day_age) == day_age < last_day_age

\* SkewedSimulationClient.get_updates
GetUpdates ==
    /\ skew_config # None
    /\ \E dt \in 0 .. MaxStep :
         /\ now + dt <= MaxTime
         /\ now' = now + dt
    /\ LET cfg == Val(skew_config)
           day_age == now' % DayLength
       IN  /\ IF DayRollover(day_age, _last_day_age) /\ cfg.daily_bias_generation # None
                THEN \E b \in sample_value(Val(cfg.daily_bias_generation)) :
                        _daily_bias' = b
                ELSE _daily_bias' = _daily_bias
           /\ \E value \in [Sensors -> BaseValues] :
                LET Outcomes == [i \in Sensors |->
                        SkewSensor(cfg, now', _daily_bias', _dropout_end_time[i],
                                   _value_retention_end_time[i], _retained_values[i],
                                   value[i])]
                IN  \E res \in [Sensors -> UNION {Outcomes[i] : i \in Sensors}] :
                      /\ \A i \in Sensors : res[i] \in Outcomes[i]
                      /\ _dropout_end_time' = [i \in Sensors |-> res[i].dropout_end]
                      /\ _value_retention_end_time' =
                             [i \in Sensors |-> res[i].retention_end]
                      /\ _retained_values' = [i \in Sensors |-> res[i].retained]
                      /\ updates' = [i \in {x \in Sensors : ~res[x].dropped} |->
                                        <<now', res[i].value>>]
                      /\ trace' = [i \in Sensors |->
                            [what |-> res[i].what,
                             fresh |-> res[i].fresh,
                             base |-> res[i].base,
                             parabola |-> res[i].parabola,
                             dropout |->
                                IF res[i].what = "dropout_start"
                                  THEN Some([start |-> now', period |-> res[i].period,
                                             value |-> 0])
                                  ELSE trace[i].dropout,
                             retention |->
                                IF res[i].what = "retain_start"
                                  THEN Some([start |-> now', period |-> res[i].period,
                                             value |-> res[i].fresh])
                                  ELSE trace[i].retention]]
           /\ _last_day_age' = day_age
    /\ UNCHANGED <<heap_vars, sampler_vars, mgr_vars, skew_config>>

\* the skewed client does not take part in the manager's specification
SkewIdle ==
    /\ skew_config = None
    /\ now = 0
    /\ _dropout_end_time = <<>>
    /\ _value_retention_end_time = <<>>
    /\ _retained_values = <<>>
    /\ _last_day_age = 0
    /\ _daily_bias = 0
    /\ updates = <<>>
    /\ trace = <<>>

\* no call of sample_location is followed
SamplerIdle ==
    /\ sl_config = None
    /\ sl_index = 0
    /\ sl_max_index = 0
    /\ sl_draw = <<0, 0>>
    /\ sl_result = NotCalled

\* the configuration objects are not followed
HeapIdle ==
    /\ heap = <<>>
    /\ template_ref = 0
    /\ objects = <<>>

\* the manager does not take part in the skewed client's specification
MgrIdle ==
    /\ runs = 0
    /\ ProcessStart(None, TRUE, Absent)

\* SkewedSimulationClient.__init__ and the class attributes
InitSkew ==
    /\ skew_config \in {Some(c) : c \in SkewConfigs}
    /\ now = 0
    /\ _dropout_end_time = [i \in Sensors |-> None]
    /\ _value_retention_end_time = [i \in Sensors |-> None]
    /\ _retained_values = [i \in Sensors |-> None]
    /\ _last_day_age = InitialLastDayAge
    /\ _daily_bias = 0
    /\ updates = <<>>
    /\ trace = [i \in Sensors |-> NoTrace]
    /\ MgrIdle
    /\ SamplerIdle
    /\ HeapIdle

NextSkew == GetUpdates

SpecSkew == InitSkew /\ [][NextSkew]_vars


(***************************************************************************)
(* The skewed client across a restart (SpecSkewRestart): the process       *)
(* stores the client and ends, and the next process loads it.              *)
(***************************************************************************)
\* a restore that brings the dropout end times of the stored client back
PersistedDropoutEndTime == _dropout_end_time

\* SkewedSimulationClient.__init__: self._dropout_end_time = dict()
NewDropoutEndTime == [i \in Sensors |-> None]

\* SkewedSimulationClient.__init__: self._value_retention_end_time = dict()
NewRetentionEndTime == [i \in Sensors |-> None]

\* SkewedSimulationClient.__init__: self._retained_values = dict()
NewRetainedValues == [i \in Sensors |-> None]

\* store(): the pair pickled for the client
StoredPair(cfg) == <<ClientConfig(<<0, 0>>, Some(3), Some(24)), cfg>>

\* SkewedSimulationClient.__init__: a bias that is set is not sampled again
\* (the skew configurations carry no generation policy for it)
RestoredConfig(pair) == pair[2]

\* store() pickles the pair of the client's configurations, the process
\* ends, and load() of the next process builds the client from the pair:
\* __init__ makes the three dicts, _last_day_age and _daily_bias are the
\* class attributes again; time goes on
SkewRestore ==
    /\ skew_config # None
    /\ runs + 1 < MaxRuns
    /\ runs' = runs + 1
    /\ file' = Pickled(<<StoredPair(Val(skew_config))>>)
    /\ skew_config' = Some(RestoredConfig(file'.configs[1]))
    /\ _dropout_end_time' = NewDropoutEndTime
    /\ _value_retention_end_time' = NewRetentionEndTime
    /\ _retained_values' = NewRetainedValues
    /\ _last_day_age' = InitialLastDayAge
    /\ _daily_bias' = 0
    /\ updates' = <<>>
    /\ trace' = [i \in Sensors |-> [trace[i] EXCEPT !.what = "restored"]]
    /\ UNCHANGED <<heap_vars, sampler_vars, now, pc, bridge_config, generate_clients,
                   delete, clients, tasks, running_tasks, task_state, aborting>>

NextSkewRestart ==
    \/ GetUpdates
    \/ SkewRestore

\* the clients followed across the restart: those with both kinds of
\* window and no skipped measurements, and those with a daytime bias impact
InitSkewRestart ==
    /\ InitSkew
    /\ LET cfg == Val(skew_config)
       IN  \/ /\ cfg.dropout_chance # None
              /\ cfg.value_retain_chance # None
              /\ cfg.skipped_measurement_chance = None
           \/ cfg.positive_daytime_bias_impact # None

SpecSkewRestart == InitSkewRestart /\ [][NextSkewRestart]_vars

Init ==
    /\ runs = 1
    /\ \E bc \in BridgeConfigs, f \in {Absent, Corrupt} :
          ProcessStart(bc, TRUE, f)
    /\ SkewIdle
    /\ SamplerIdle
    /\ HeapIdle

Next ==
    \/ Load
    \/ Generate
    \/ RunStart
    \/ SpawnNext
    \/ \E j \in 1 .. MaxTarget : ClientRegister(j)
    \/ \E j \in 1 .. MaxTarget : ClientDelete(j)
    \/ \E j \in 1 .. MaxTarget : ClientReturn(j)
    \/ \E j \in 1 .. MaxTarget : ClientRaise(j)
    \/ OnTaskDone
    \/ \E j \in 1 .. MaxTarget : ClientCancelled(j)
    \/ RunJoin
    \/ StoreDump
    \/ StoreFail
    \/ Stop
    \/ Restart

Spec == Init /\ [][Next]_vars

\* the polling loop of a killed client ends at its next safe point: the
\* task returns, or raises
KilledClientEnds(j) ==
    /\ j \in 1 .. running_tasks
    /\ task_state[j] = "running"
    /\ clients[tasks[j]].killed
    /\ (ClientReturn(j) \/ ClientRaise(j))

\* the event loop runs every step that is ready: main() awaits run(), a
\* sleep returns, the callbacks of a task that ended are called, a
\* cancelled task ends, store() returns or raises; and a killed client
\* ends its polling loop
Fairness ==
    /\ WF_vars(RunStart)
    /\ WF_vars(SpawnNext)
    /\ WF_vars(OnTaskDone)
    /\ WF_vars(RunJoin)
    /\ WF_vars(StoreDump \/ StoreFail)
    /\ \A j \in 1 .. MaxTarget : WF_vars(ClientCancelled(j))
    /\ \A j \in 1 .. MaxTarget : WF_vars(KilledClientEnds(j))

SpecFair == Spec /\ Fairness

(***************************************************************************)
(* The construction of the manager alone (SpecConstruct): __init__ over    *)
(* every file an earlier process can have left, with populations and       *)
(* targets up to MaxCount.                                                 *)
(***************************************************************************)
\* largest target_client_count of the process and of the one before it
MaxCount == 3

\* a coordinate gradient template whose fan-out and depth policies reach
\* below the allowed values
GradientTemplate ==
    [BaseSimulationConfig EXCEPT
        !.client_class = "coordinate_gradient",
        !.location_generation = Some(FixedLocation(0, 0)),
        !.k_generation = Some(UniformRandom(0, 3)),
        !.max_depth_generation = Some(UniformRandom(-1, 2))]

\* the templates of the construction
ConstructTemplates == Templates \cup {GradientTemplate}

ConstructConfigs ==
    [target_client_count : 1 .. MaxCount,
     client_spawn_delay : {FALSE},
     client_simulation_config : ConstructTemplates]

\* a snapshot whose second pair carries the tag "random_base", the default
\* of RandomBaseClientSimulationConfig.client_class, which the lookup table
\* does not hold
UnknownTagFile ==
    Pickled(<<<<ClientConfig(<<0, 0>>, Some(3), None),
                [BlankTemplate EXCEPT !.max_client_index = 2]>>,
              <<ClientConfig(<<0, 0>>, Some(3), Some(24)),
                [SkewedGradientTemplate EXCEPT !.client_class = "random_base",
                                               !.client_index = 1,
                                               !.max_client_index = 2]>>>>)

\* the files the process can find: none, an unreadable one, one with a tag
\* the lookup table does not hold, or the snapshot store() wrote for a
\* population an earlier process generated
StoredFiles ==
    {Absent, Corrupt, UnknownTagFile}
        \cup {Pickled(Snapshot(cs)) :
                cs \in UNION {GenerateClients(<<>>, bc) : bc \in ConstructConfigs}}

InitConstruct ==
    /\ runs = 1
    /\ \E bc \in ConstructConfigs, f \in StoredFiles : ProcessStart(bc, TRUE, f)
    /\ SkewIdle
    /\ SamplerIdle
    /\ HeapIdle

NextConstruct ==
    \/ Load
    \/ Generate

SpecConstruct == InitConstruct /\ [][NextConstruct]_vars


(***************************************************************************)
(* The construction of the manager on objects (SpecOwnership): load() and  *)
(* generate() as in SpecConstruct, with every ClientSimulationConfig an    *)
(* object of the heap that is read and written through its reference.      *)
(* clients and bridge_config are what the references lead to.              *)
(***************************************************************************)
\* a copy that hands out the object it was asked to copy
same_instance(h, ref) == [heap |-> h, ref |-> ref]

\* model_copy(deep=True): a new object with the fields of the object at ref
model_copy(h, ref) == [heap |-> Append(h, h[ref]), ref |-> Len(h) + 1]

\* self.clients, each client with the config object its reference leads to
ClientsOf(h, objs) ==
    [p \in DOMAIN objs |-> Client(objs[p].cls, objs[p]._config, h[objs[p].ref])]

\* load(): pickle.load builds one config object per stored pair, and the
\* constructor of the pair's class resolves the fields of that object
RECURSIVE LoadObjects(_, _, _)
LoadObjects(h, objs, configs) ==
    IF configs = <<>> THEN {[heap |-> h, objects |-> objs]}
    ELSE LET config == Head(configs)[1]
             ref == Len(h) + 1
             h1 == Append(h, Head(configs)[2])
             client_class == get_simulation_class(h1[ref].client_class)
         IN  UNION {LoadObjects([h1 EXCEPT ![ref] = c._client_simulation_config],
                                Append(objs, [cls |-> c.cls, _config |-> c._config,
                                              ref |-> ref]),
                                Tail(configs)) :
                      c \in Instantiate(client_class, h1[ref], Some(config))}

\* generate(): each round of the loop copies the template, writes the
\* indices into the copy and hands the copy to the constructor, which
\* resolves its fields
RECURSIVE GenerateObjects(_, _, _, _)
GenerateObjects(h, objs, t, target_client_count) ==
    IF Len(objs) >= target_client_count THEN {[heap |-> h, objects |-> objs]}
    ELSE LET client_simulation_class == get_simulation_class(h[t].client_class)
             copy == model_copy(h, t)
             ref == copy.ref
             h1 == [copy.heap EXCEPT
                       ![ref] = GeneratedConfig(@, Len(objs), target_client_count)]
         IN  UNION {GenerateObjects([h1 EXCEPT ![ref] = c._client_simulation_config],
                                    Append(objs, [cls |-> c.cls, _config |-> c._config,
                                                  ref |-> ref]),
                                    t, target_client_count) :
                      c \in Instantiate(client_simulation_class, h1[ref], None)}

\* SimulationManager.load, called by __init__
HeapLoad ==
    /\ pc = "init"
    /\ IF FileNotFound(file)
         THEN pc' = "loaded" /\ UNCHANGED <<heap, objects>>
         ELSE IF file.state # "ok" \/ LoadKeyError(file.configs)
                THEN pc' = "failed" /\ UNCHANGED <<heap, objects>>
                ELSE /\ \E r \in LoadObjects(heap, <<>>, file.configs) :
                          heap' = r.heap /\ objects' = r.objects
                     /\ pc' = "loaded"
    /\ clients' = ClientsOf(heap', objects')
    /\ bridge_config' = [bridge_config EXCEPT
                            !.client_simulation_config = heap'[template_ref]]
    /\ UNCHANGED <<template_ref, sampler_vars, skew_vars, runs, generate_clients,
                   delete, file, tasks, running_tasks, task_state, aborting>>

\* SimulationManager.generate, called by __init__ if generate_clients
HeapGenerate ==
    /\ pc = "loaded"
    /\ IF generate_clients
         THEN \E r \in GenerateObjects(heap, objects, template_ref,
                                       bridge_config.target_client_count) :
                 heap' = r.heap /\ objects' = r.objects
         ELSE UNCHANGED <<heap, objects>>
    /\ pc' = "generated"
    /\ clients' = ClientsOf(heap', objects')
    /\ bridge_config' = [bridge_config EXCEPT
                            !.client_simulation_config = heap'[template_ref]]
    /\ UNCHANGED <<template_ref, sampler_vars, skew_vars, runs, generate_clients,
                   delete, file, tasks, running_tasks, task_state, aborting>>

\* the process starts with the template as the only config object
InitOwnership ==
    /\ runs = 1
    /\ \E bc \in ConstructConfigs, f \in StoredFiles :
          /\ ProcessStart(bc, TRUE, f)
          /\ heap = <<bc.client_simulation_config>>
    /\ template_ref = 1
    /\ objects = <<>>
    /\ SkewIdle
    /\ SamplerIdle

NextOwnership ==
    \/ HeapLoad
    \/ HeapGenerate

SpecOwnership == InitOwnership /\ [][NextOwnership]_vars

(***************************************************************************)
(* sample_location alone (SpecSampler): one call for every input.          *)
(***************************************************************************)
\* largest index and max_index of a call
MaxIndex == 5

\* the corners the areas are made of
Corners == {<<0, 0>>, <<0, 6>>, <<6, 0>>, <<6, 6>>, <<-90, -180>>, <<90, 180>>}

\* the location generation configurations of a call
LocationConfigs ==
    {FixedLocation(48, 11), UniformRandomLocation(<<0, 0>>, <<1, 2>>)}
        \cup {GridLocation(a, b) : a, b \in Corners}
        \cup {NormalRandomLocation(lat, lon, lat_dev, lon_dev) :
                lat \in {-90, 0, 89}, lon \in {-180, 0, 179},
                lat_dev \in {1, 91}, lon_dev \in {1, 181}}

InitSampler ==
    /\ \E config \in LocationConfigs, index \in 0 .. MaxIndex, max_index \in 0 .. MaxIndex :
          /\ config.type = "grid" \/ (index = 0 /\ max_index = 1)
          /\ sl_config = Some(config)
          /\ sl_index = index
          /\ sl_max_index = max_index
    /\ sl_draw = <<0, 0>>
    /\ sl_result = NotCalled
    /\ MgrIdle
    /\ SkewIdle
    /\ HeapIdle

\* sample_location(config, index, max_index)
SampleLocationCall ==
    /\ sl_config # None
    /\ sl_result = NotCalled
    /\ \E r \in SampleLocation(Val(sl_config), sl_index, sl_max_index) :
          /\ sl_draw' = r.draw
          /\ sl_result' = r.result
    /\ UNCHANGED <<heap_vars, mgr_vars, skew_vars, sl_config, sl_index, sl_max_index>>

NextSampler == SampleLocationCall

SpecSampler == InitSampler /\ [][NextSampler]_vars

(***************************************************************************)
(* Properties of SkewedSimulationClient.get_updates (SpecSkew).            *)
(***************************************************************************)
\* the latest call was made inside the window [start, start + period)
InWindow(w) == w # None /\ Val(w).start <= now /\ now < Val(w).start + Val(w).period

\* C1: retention invariant.  Once a retention window of a sensor started
\* at time t with period d and retained value v, a call at a time in
\* [t, t + d) that emits the sensor returns v for it.
C1_RetentionReturnsRetained ==
    \A i \in Sensors :
        (trace[i].what # "none" /\ InWindow(trace[i].retention) /\ i \in DOMAIN updates)
            => updates[i][2] = Val(trace[i].retention).value

\* C2: dropout invariant.  Once a dropout window of a sensor started at
\* time t with period d, the sensor is absent from the mapping returned by
\* the call that started it and by every call at a time in [t, t + d); a
\* call at a time >= t + d returns the sensor again unless that call
\* starts a new dropout or skips the reading.
C2_DropoutWindow ==
    \A i \in Sensors :
        /\ trace[i].what = "dropout_start" => i \notin DOMAIN updates
        /\ InWindow(trace[i].dropout) => i \notin DOMAIN updates
        /\ (/\ trace[i].dropout # None
            /\ now >= Val(trace[i].dropout).start + Val(trace[i].dropout).period
            /\ trace[i].what \notin {"none", "dropout_start", "skip"})
               => i \in DOMAIN updates

\* C2 witness: a call later than the one that started the window finds the
\* sensor inside the window and drops it
C2_Witness ==
    \E i \in Sensors :
        /\ trace[i].what = "dropout"
        /\ InWindow(trace[i].dropout)
        /\ now > Val(trace[i].dropout).start
        /\ i \notin DOMAIN updates

(***************************************************************************)
(* Properties of SimulationManager (Spec).                                 *)
(***************************************************************************)
\* run() has entered the TaskGroup and not yet left it
InTaskGroup == pc \in {"spawning", "joining"}

Launched == 1 .. running_tasks

Registered(c) == c._config.ms_config # None

\* C3: failure isolation.  If a launched client task fails, the other
\* launched tasks are not cancelled, and the failure is propagated only
\* after every launched task has ended.
C3_FailureIsolation ==
    /\ \A j \in Launched : task_state[j] \notin {"cancelling", "cancelled"}
    /\ pc = "run_failed" => \A j \in Launched : Ended(task_state[j])

\* C4: a client task failure does not prevent persistence.  When run() has
\* ended after a task failure, store() has been executed and the snapshot
\* holds every client of the population.
C4_StoreAfterFailure ==
    (pc \in Terminal /\ \E j \in Launched : task_state[j] = "failed")
        => file = Pickled(Snapshot(clients))

\* C5: round trip of store and load.  store() writes the (config,
\* simulation config) pair of every client in population order, and load()
\* rebuilds from a snapshot a population of the same length and order whose
\* clients have the class of their stored tag and exactly the stored
\* ClientConfig (location, k, max_depth) and simulation config
\* (client_index, max_client_index, resolved lazy fields): no resolved
\* field is sampled again.
C5_RoundTrip ==
    /\ pc = "stopped" =>
          /\ file.state = "ok"
          /\ Len(file.configs) = Len(clients)
          /\ \A p \in DOMAIN clients :
                /\ file.configs[p][1] = clients[p]._config
                /\ file.configs[p][2] = clients[p]._client_simulation_config
                /\ clients[p].cls = clients[p]._client_simulation_config.client_class
    /\ (pc = "loaded" /\ file.state = "ok") =>
          /\ Len(clients) = Len(file.configs)
          /\ \A p \in DOMAIN clients :
                /\ clients[p]._config = file.configs[p][1]
                /\ clients[p]._client_simulation_config = file.configs[p][2]
                /\ clients[p].cls = file.configs[p][2].client_class

\* C5 witness: two clients with a resolved bias, one of them registered,
\* have been restored from a snapshot
C5_Witness ==
    /\ pc = "loaded"
    /\ file.state = "ok"
    /\ Len(clients) = 2
    /\ \A p \in DOMAIN clients : clients[p]._client_simulation_config.bias # None
    /\ clients[1]._client_simulation_config.bias
         # clients[2]._client_simulation_config.bias
    /\ \E p \in DOMAIN clients : Registered(clients[p])

\* C6: load error policy.  With the file absent load() leaves the
\* population empty and the construction goes on; with a file that cannot
\* be read the construction is aborted: nothing is loaded, generated or
\* run by that process.
C6_LoadErrorPolicy ==
    /\ (pc = "loaded" /\ file.state = "absent") => clients = <<>>
    /\ file.state = "absent" => pc # "failed"
    /\ pc = "failed" => clients = <<>> /\ tasks = <<>> /\ running_tasks = 0
    /\ file.state = "corrupt" => pc \notin {"loaded", "generated", "spawning", "joining"}

\* C6 witness: the construction was aborted over the file a failed store
\* of the previous process left
C6_Witness == pc = "failed" /\ file.state = "corrupt" /\ runs = 2

\* the number of clients load() restored: the file is not written between
\* the start of the process and store()
LoadedCount == IF file.state = "ok" THEN Len(file.configs) ELSE 0

\* C7: generate fills the population up to the target.  With L loaded
\* clients and target N > L the population has N clients, the clients at
\* the positions after L have the client_index values L .. N-1 in that
\* order, max_client_index N and the class named by the template; the
\* loaded clients stay as loaded.  Without a snapshot, N = 3 and the
\* blank template the population is 3 blank clients with the indices
\* 0, 1, 2.
C7_GenerateFills ==
    pc = "generated" =>
        LET L == LoadedCount
            N == bridge_config.target_client_count
            template == bridge_config.client_simulation_config
        IN  /\ Len(clients) = Max(L, N)
            /\ \A p \in DOMAIN clients :
                  IF p <= L
                    THEN clients[p]._client_simulation_config = file.configs[p][2]
                    ELSE /\ clients[p]._client_simulation_config.client_index = p - 1
                         /\ clients[p]._client_simulation_config.max_client_index = N
                         /\ clients[p]._client_simulation_config.client_class
                               = template.client_class
                         /\ clients[p].cls = template.client_class
            /\ (file.state = "absent" /\ N = 3 /\ template.client_class = "blank") =>
                  /\ Len(clients) = 3
                  /\ \A p \in 1 .. 3 :
                        /\ clients[p].cls = "blank"
                        /\ clients[p]._client_simulation_config.client_index = p - 1

\* C7 witness: one client was loaded and two were generated behind it
C7_Witness ==
    /\ pc = "generated"
    /\ LoadedCount = 1
    /\ bridge_config.target_client_count = 3
    /\ Len(clients) = 3
    /\ clients[2]._client_simulation_config.client_index = 1
    /\ clients[3]._client_simulation_config.client_index = 2

\* C8: run() launches at most target_client_count tasks.  The coroutines
\* are those of the population positions up to the target, a task is only
\* created for one of them, and all of them are launched once the launch
\* loop has ended without the group aborting.
C8_LaunchBound ==
    /\ running_tasks <= Len(tasks)
    /\ InTaskGroup =>
          /\ Len(tasks) <= bridge_config.target_client_count
          /\ Len(tasks) = Min(Len(clients), bridge_config.target_client_count)
          /\ \A j \in DOMAIN tasks : tasks[j] = j
          /\ \A j \in DOMAIN tasks : (task_state[j] = "created") <=> (j > running_tasks)
          /\ (pc = "joining" /\ ~aborting) => running_tasks = Len(tasks)

\* C8 witness: more clients were loaded than the target, and the launch
\* loop has ended
C8_Witness ==
    /\ pc = "joining"
    /\ Len(clients) > bridge_config.target_client_count
    /\ running_tasks = bridge_config.target_client_count

\* C9: delete mode.  After the join run() removes exactly the clients
\* without a registration (ms_config is None) and keeps the others in
\* their order, and the snapshot it then writes is that of the clients
\* kept.
C9_DeleteMode ==
    [][/\ (pc = "joining" /\ pc' = "storing" /\ delete) =>
            /\ \A p \in DOMAIN clients' : Registered(clients'[p])
            /\ Len(clients') = Cardinality({p \in DOMAIN clients : Registered(clients[p])})
            /\ \A p, q \in DOMAIN clients :
                  (p < q /\ Registered(clients[p]) /\ Registered(clients[q])) =>
                     \E x, y \in DOMAIN clients' :
                        x < y /\ clients'[x] = clients[p] /\ clients'[y] = clients[q]
            /\ \A p \in DOMAIN clients :
                  Registered(clients[p]) => clients[p] \in Range(clients')
       /\ (pc = "storing" /\ pc' = "stopped" /\ delete) =>
            /\ clients' = clients
            /\ Len(file'.configs) = Len(clients)
            /\ \A p \in DOMAIN clients :
                  /\ file'.configs[p][1] = clients[p]._config
                  /\ file'.configs[p][1].ms_config # None]_vars

\* C9 witness: a run with delete wrote a snapshot without the client that
\* deleted itself and with the client that is still registered
C9_Witness ==
    /\ pc = "stopped"
    /\ delete
    /\ Len(tasks) = 2
    /\ Len(clients) = 1
    /\ Len(file.configs) = 1

\* C10: the snapshot is written by the manager after the join only.  The
\* file is written in no step in which a launched task has not ended, and
\* a store writes one pair per client of the population, in its order.
C10_StoreAfterJoin ==
    [][/\ (file' # file /\ file'.state # "absent") =>
            /\ pc \in {"joining", "storing"}
            /\ \A j \in Launched : task_state[j] \in {"done", "failed", "cancelled"}
       /\ (file' # file /\ file'.state = "ok") =>
            /\ Len(file'.configs) = Len(clients)
            /\ \A p \in DOMAIN clients :
                  file'.configs[p]
                    = <<clients[p]._config, clients[p]._client_simulation_config>>]_vars

\* C10 witness: the snapshot of two clients was written after both tasks
\* had been launched
C10_Witness ==
    /\ pc = "stopped"
    /\ running_tasks = 2
    /\ file.state = "ok"
    /\ Len(file.configs) = 2

\* stop() has been called in this process: every client is killed
StopRequested == clients # <<>> /\ \A p \in DOMAIN clients : clients[p].killed

\* store() has been called: it returned or raised
StorePerformed == pc \in {"stopped", "store_failed"}

\* C11: graceful stop.  A stop() kills every client of the population and
\* cancels no task; store() is entered from the join only, and not again
\* in the same process; and a stop() during the run leads to store()
\* being performed, unless a client task ended by raising.
C11_GracefulStop ==
    /\ [][(\E p \in DOMAIN clients \cap DOMAIN clients' :
               clients'[p].killed /\ ~clients[p].killed)
            => /\ \A p \in DOMAIN clients' : clients'[p].killed
               /\ Len(clients') = Len(clients)
               /\ task_state' = task_state
               /\ aborting' = aborting
               /\ pc' = pc]_vars
    /\ [][/\ pc' = "storing" => pc \in {"joining", "storing"}
          /\ (pc \in {"storing", "stopped", "store_failed"} /\ runs' = runs)
                => pc' \in {"storing", "stopped", "store_failed"}
          /\ (StorePerformed /\ runs' = runs) => (pc' = pc /\ file' = file)]_vars
    /\ (StopRequested /\ InTaskGroup)
          ~> (StorePerformed \/ \E j \in Launched : task_state[j] = "failed")

\* C11 witness: the run was stopped while two tasks were running, both
\* returned and the snapshot was written
C11_Witness ==
    /\ pc = "stopped"
    /\ StopRequested
    /\ running_tasks = 2
    /\ \A j \in Launched : task_state[j] = "done"
    /\ file = Pickled(Snapshot(clients))

\* C12: staggered start.  The launched tasks are those of a prefix of the
\* population; the first task is launched in the step that starts run(),
\* before any sleep; with a spawn delay every further launch is that of
\* the next position and happens when a sleep begun after the previous
\* launch returns.
C12_StaggeredStart ==
    /\ [](\A j \in DOMAIN tasks :
            /\ tasks[j] = j
            /\ (task_state[j] # "created") <=> (j <= running_tasks))
    /\ [][/\ (pc = "generated" /\ pc' # "generated") =>
                /\ running_tasks' >= 1
                /\ bridge_config.client_spawn_delay => running_tasks' = 1
          /\ (running_tasks' > running_tasks /\ running_tasks >= 1) =>
                /\ bridge_config.client_spawn_delay
                /\ pc = "spawning"
                /\ running_tasks' = running_tasks + 1
                /\ task_state'[running_tasks'] = "running"]_vars

\* C12 witness: with a spawn delay the second task was launched after the
\* first, which is still running
C12_Witness ==
    /\ pc = "spawning"
    /\ bridge_config.client_spawn_delay
    /\ running_tasks = 2
    /\ task_state = <<"running", "running">>

\* C13: store() is atomic with respect to the snapshot file.  While
\* store() is writing, and after it failed, the file holds a complete
\* snapshot (or is still absent), never an empty or partial one.
C13_StoreAtomic ==
    pc \in {"storing", "store_failed"} => file.state # "corrupt"

\* some stored tag is not a key of the lookup table
UnknownTag ==
    \E x \in DOMAIN file.configs :
        file.configs[x][2].client_class \notin simulation_client_class_lookup

\* C14: archetype of restored clients.  Every restored client has the
\* class of the tag in its own stored simulation config, whatever the
\* template of the current configuration; after generate only the clients
\* behind the restored ones have the class of the template; a snapshot
\* with a tag that the lookup table does not hold makes the construction
\* fail, and nothing else but an unreadable file does.
C14_RestoredArchetype ==
    /\ (pc \in {"loaded", "generated"} /\ file.state = "ok") =>
          /\ ~UnknownTag
          /\ Len(clients) >= Len(file.configs)
          /\ \A p \in DOMAIN file.configs :
                clients[p].cls = file.configs[p][2].client_class
    /\ pc = "generated" =>
          \A p \in DOMAIN clients :
             p > LoadedCount =>
                clients[p].cls = bridge_config.client_simulation_config.client_class
    /\ (file.state = "ok" /\ UnknownTag) =>
          (pc \in {"init", "failed"} /\ clients = <<>>)
    /\ pc = "failed" => (file.state = "corrupt" \/ UnknownTag)

\* C14 witness: a restored client kept a class other than that of the
\* template, and a client of the template's class was generated behind it
C14_Witness ==
    /\ pc = "generated"
    /\ LoadedCount >= 1
    /\ Len(clients) > LoadedCount
    /\ clients[1].cls = "skewed_diurnal_approximation"
    /\ bridge_config.client_simulation_config.client_class = "blank"
    /\ clients[Len(clients)].cls = "blank"

(***************************************************************************)
(* Properties of sample_location (SpecSampler).                            *)
(***************************************************************************)
\* C15: wraparound of normal_random locations.  Whatever is drawn, the
\* call returns a latitude in [-90, 90] and a longitude in [-180, 180];
\* a drawn latitude of 91 is returned as -89, one of -91 as 89, and a
\* drawn value inside the range is returned as it is.
C15_Wraparound ==
    (sl_result # NotCalled /\ Val(sl_config).type = "normal_random") =>
        /\ sl_result.state = "returned"
        /\ sl_result.coordinate[1] \in -90 .. 90
        /\ sl_result.coordinate[2] \in -180 .. 180
        /\ sl_draw[1] = 91 => sl_result.coordinate[1] = -89
        /\ sl_draw[1] = -91 => sl_result.coordinate[1] = 89
        /\ sl_draw[1] \in -90 .. 90 => sl_result.coordinate[1] = sl_draw[1]
        /\ sl_draw[2] \in -180 .. 180 => sl_result.coordinate[2] = sl_draw[2]

\* C15 witness: a latitude of 91 was drawn together with a longitude
\* beyond 180, and both were wrapped
C15_Witness ==
    /\ sl_result.state = "returned"
    /\ Val(sl_config).type = "normal_random"
    /\ sl_draw[1] = 91
    /\ sl_draw[2] > 180
    /\ sl_result.coordinate[1] = -89
    /\ sl_result.coordinate[2] < 0

\* the point at latitude step a and longitude step b of the lattice with
\* n points a side over the area, in the unit of linspace
LatticePoint(area, n, a, b) ==
    <<area[1][1] * Max(n - 1, 1) + a * (area[2][1] - area[1][1]),
      area[1][2] * Max(n - 1, 1) + b * (area[2][2] - area[1][2])>>

\* grid placement over the areas that satisfy area_ok: with
\* n = ceil(sqrt(max_index)), an index i below max_index is placed at
\* latitude step i mod n and longitude step i div n, where no other index
\* below max_index is placed; an index >= n * n raises
GridPlacement(area_ok) ==
    (/\ sl_result # NotCalled
     /\ Val(sl_config).type = "grid"
     /\ sl_max_index >= 1
     /\ area_ok) =>
        LET config == Val(sl_config)
            n == CHOOSE x \in 1 .. sl_max_index :
                    x * x >= sl_max_index /\ (x - 1) * (x - 1) < sl_max_index
        IN  /\ sl_index < sl_max_index =>
                  /\ sl_result =
                        Returned(LatticePoint(config.area, n, sl_index % n, sl_index \div n))
                  /\ \A j \in 0 .. sl_max_index - 1 :
                        j # sl_index =>
                           GridCoordinate(config, j, sl_max_index) # sl_result
            /\ sl_index >= n * n => sl_result = IndexError

\* C16 as stated: grid placement for every area with distinct corners.
C16_GridPlacement ==
    GridPlacement(sl_config # None /\ Val(sl_config).area[1] # Val(sl_config).area[2])

\* C16 amended: grid placement for every area whose corners differ in
\* latitude and in longitude.
C16_GridPlacementProperArea ==
    GridPlacement(/\ sl_config # None
                  /\ Val(sl_config).area[1][1] # Val(sl_config).area[2][1]
                  /\ Val(sl_config).area[1][2] # Val(sl_config).area[2][2])

\* C16 witness: the last of four indices over a square is placed at the
\* far corner
C16_Witness ==
    /\ sl_config = Some(GridLocation(<<0, 0>>, <<6, 6>>))
    /\ sl_max_index = 4
    /\ sl_index = 3
    /\ sl_result = Returned(<<6, 6>>)

(***************************************************************************)
(* Further properties of SkewedSimulationClient.get_updates (SpecSkew).    *)
(***************************************************************************)
\* the latest call suppressed the sensor by dropout or by skip
Suppressed(what) == what \in {"dropout", "dropout_start", "skip"}

\* C17: short-circuit of the skew chain.  A call that suppresses a sensor
\* by dropout or by skip leaves the sensor's retention end time and
\* retained value as they were and starts no retention window for it; a
\* skip also leaves the sensor's dropout end time as it was.
C17_ShortCircuit ==
    [][\A i \in Sensors :
          /\ Suppressed(trace'[i].what) =>
                /\ i \notin DOMAIN updates'
                /\ _value_retention_end_time'[i] = _value_retention_end_time[i]
                /\ _retained_values'[i] = _retained_values[i]
                /\ trace'[i].retention = trace[i].retention
          /\ trace'[i].what = "skip" =>
                _dropout_end_time'[i] = _dropout_end_time[i]]_vars

\* C17 witness: a reading was skipped inside a retention window of a
\* sensor that had a dropout before
C17_Witness ==
    \E i \in Sensors :
        /\ trace[i].what = "skip"
        /\ InWindow(trace[i].retention)
        /\ _retained_values[i] # None
        /\ _dropout_end_time[i] # None

\* C18: daily bias.  A call samples the daily bias again exactly when a
\* daily bias policy is configured and the day progress of the call is
\* smaller than the one the call before left in _last_day_age; every
\* other call keeps it; and where no other value skew is configured a
\* reading that survives dropout and skip is the reading of the archetype
\* plus the daily bias of the call.
C18_DailyBias ==
    [][LET cfg == Val(skew_config)
           resample == /\ cfg.daily_bias_generation # None
                       /\ _last_day_age' < _last_day_age
       IN  /\ resample => _daily_bias' \in sample_value(Val(cfg.daily_bias_generation))
           /\ ~resample => _daily_bias' = _daily_bias
           /\ (/\ cfg.bias = None
               /\ cfg.noise_generation = None
               /\ cfg.positive_daytime_bias_impact = None) =>
                  \A i \in DOMAIN updates' :
                     updates'[i][2] = trace'[i].base + _daily_bias']_vars

\* C18 witness: a call after the first rollover returned a reading with
\* the daily bias of the new day
C18_Witness ==
    /\ skew_config # None
    /\ Val(skew_config).daily_bias_generation # None
    /\ Val(skew_config).bias = None
    /\ now = DayLength
    /\ _last_day_age = 0
    /\ _daily_bias > 0
    /\ \E i \in DOMAIN updates : updates[i][2] = trace[i].base + _daily_bias

\* the amount the daytime bias step added to a reading that the latest
\* call returned, where neither noise nor impulse noise is configured:
\* the reading minus the archetype's value, the daily bias and the bias
DaytimeAmount(i) ==
    updates[i][2] - (trace[i].base + _daily_bias + Val(Val(skew_config).bias))

\* the daytime bias step ran for the reading of sensor i, and no later
\* step changed the value
DaytimeOnly(i) ==
    /\ i \in DOMAIN updates
    /\ trace[i].parabola # None
    /\ Val(skew_config).bias # None
    /\ Val(skew_config).noise_generation = None
    /\ Val(skew_config).impulse_noise_chance = None

\* C19 as stated: the daytime bias adds max(0, parabola) times the
\* strength times the value of the archetype, before daily bias and bias.
C19_DaytimeBiasUnskewed ==
    \A i \in Sensors :
        DaytimeOnly(i) =>
            /\ DaytimeAmount(i) =
                  Max(0, Val(trace[i].parabola))
                    * Val(Val(skew_config).positive_daytime_bias_impact) * trace[i].base
            /\ Val(trace[i].parabola) < 0 => DaytimeAmount(i) = 0

\* C19 amended: the daytime bias adds max(0, parabola) times the strength
\* times the value as skewed so far, that is the value of the archetype
\* plus the daily bias plus the bias; it adds 0 where the parabola is
\* negative.
C19_DaytimeBiasSkewed ==
    \A i \in Sensors :
        DaytimeOnly(i) =>
            /\ DaytimeAmount(i) =
                  Max(0, Val(trace[i].parabola))
                    * Val(Val(skew_config).positive_daytime_bias_impact)
                    * (trace[i].base + _daily_bias + Val(Val(skew_config).bias))
            /\ Val(trace[i].parabola) < 0 => DaytimeAmount(i) = 0

\* C19 witness: with a positive parabola a reading was raised by the
\* daytime bias
C19_Witness ==
    \E i \in Sensors :
        /\ DaytimeOnly(i)
        /\ Val(trace[i].parabola) > 0
        /\ _daily_bias > 0
        /\ DaytimeAmount(i) > 0

(***************************************************************************)
(* Further properties of SimulationManager (Spec).                         *)
(***************************************************************************)
\* the members of a population and their order: each client without what
\* a running client or stop() changes on it (registration, kill flag)
Members(cs) ==
    [p \in DOMAIN cs |->
        <<cs[p].cls, cs[p]._client_simulation_config,
          cs[p]._config.location, cs[p]._config.k, cs[p]._config.max_depth>>]

\* C20: population membership is frozen during the run.  No step taken
\* while run() is inside the TaskGroup changes the members of the
\* population or their order, stop() included; the population changes
\* again only in the step that leaves the group, when every launched task
\* has ended.
C20_MembershipFrozen ==
    [][/\ pc = "generated" /\ pc' \in {"spawning", "joining"}
            => Members(clients') = Members(clients)
       /\ InTaskGroup =>
            \/ Members(clients') = Members(clients)
            \/ /\ pc' \notin {"spawning", "joining"}
               /\ \A j \in Launched : Ended(task_state[j])]_vars

\* C20 witness: stop() was called while one of two tasks had ended and
\* the other was still running, and both clients are in the population
C20_Witness ==
    /\ pc = "joining"
    /\ StopRequested
    /\ task_state = <<"done", "running">>
    /\ Len(clients) = 2
    /\ Registered(clients[1])

\* the phase of the manager: 0 Uninitialized, 1 Loaded, 2 Generated,
\* 3 Running, 4 Stopped (run() returned or raised, or __init__ raised)
Phase(p) ==
    CASE p = "init" -> 0
      [] p = "loaded" -> 1
      [] p = "generated" -> 2
      [] p \in {"spawning", "joining"} -> 3
      [] OTHER -> 4

\* C21: phase order.  Within one process the phases occur only in the
\* order Uninitialized, Loaded, Generated, Running, Stopped (a failure ends
\* the manager from any phase): load() completes before generate() starts,
\* a client task is launched only after load() and generate() have
\* completed, and store() writes the file only after every launched task
\* has ended.
C21_PhaseOrder ==
    [][runs' = runs =>
         /\ Phase(pc') = Phase(pc)
              \/ Phase(pc') = Phase(pc) + 1
              \/ pc' \in {"failed", "run_failed", "store_failed"}
         /\ Len(clients') > Len(clients) =>
              \/ pc = "init" /\ pc' = "loaded"
              \/ pc = "loaded" /\ pc' = "generated"
         /\ running_tasks' > running_tasks =>
              Phase(pc) \in {2, 3} /\ pc' \in {"spawning", "joining"}
         /\ file' # file =>
              /\ pc \in {"joining", "storing"}
              /\ running_tasks' = running_tasks
              /\ \A j \in Launched : Ended(task_state[j])]_vars

\* C21 witness: the second process loaded the snapshot of the first,
\* generated the second client, ran both tasks and stored
C21_Witness ==
    /\ runs = 2
    /\ pc = "stopped"
    /\ running_tasks = 2
    /\ Len(clients) = 2
    /\ clients[1]._client_simulation_config.max_client_index = 1
    /\ file = Pickled(Snapshot(clients))

(***************************************************************************)
(* Properties of the construction on objects (SpecOwnership).              *)
(***************************************************************************)
\* C22: config ownership.  generate() leaves the template unchanged: its
\* client_index, max_client_index and unresolved lazy fields keep the
\* values of the template.  Every client has a config object of its own
\* that is neither the template nor the object of another client, so
\* nothing that load() or generate() resolves or writes in one client's
\* config changes the template or the config of a client that exists.
C22_ConfigOwnership ==
    /\ [](heap[template_ref] \in ConstructTemplates)
    /\ [](\A p, q \in DOMAIN objects :
             /\ objects[p].ref # template_ref
             /\ objects[p].ref = objects[q].ref => p = q)
    /\ [][/\ heap'[template_ref] = heap[template_ref]
          /\ bridge_config' = bridge_config
          /\ \A r \in DOMAIN heap : heap'[r] = heap[r]
          /\ \A p \in DOMAIN clients : clients'[p] = clients[p]]_vars

\* C22 witness: generate() added two clients to a loaded one and resolved
\* a different bias in each of them, while the template has none
C22_Witness ==
    /\ pc = "generated"
    /\ file.state = "ok"
    /\ Len(objects) = 3
    /\ Len(file.configs) = 1
    /\ clients[2]._client_simulation_config.bias = Some(1)
    /\ clients[3]._client_simulation_config.bias = Some(2)
    /\ heap[template_ref].bias = None
    /\ heap[template_ref].client_index = 0

(***************************************************************************)
(* Properties of the client identity across processes (Spec).              *)
(***************************************************************************)
\* the identity of a generated client: its client_index and max_client_index
Identity(sim) == <<sim.client_index, sim.max_client_index>>

\* the identities of the clients of a population, in order
Ids(cs) == [p \in DOMAIN cs |-> Identity(cs[p]._client_simulation_config)]

\* the identities a snapshot holds, in order
StoredIds(f) == [p \in DOMAIN f.configs |-> Identity(f.configs[p][2])]

\* C23: identity is frozen.  Once generated, a client keeps its
\* client_index and max_client_index: load() restores them from the
\* snapshot, generate() leaves the clients it finds as they are, no step of
\* run() or stop() changes them (the delete mode only removes clients),
\* store() writes them as they are and a restart leaves the snapshot alone
\* or removes it, whatever the target of the new process is.
C23_IdentityFrozen ==
    [][/\ pc = "init" /\ pc' = "loaded" /\ file.state = "ok" =>
              Ids(clients') = StoredIds(file)
       /\ pc = "loaded" =>
              /\ Len(clients') >= Len(clients)
              /\ SubSeq(Ids(clients'), 1, Len(clients)) = Ids(clients)
       /\ pc \in {"generated", "spawning", "storing"} => Ids(clients') = Ids(clients)
       /\ pc = "joining" =>
              \A q \in DOMAIN clients' : \E p \in DOMAIN clients :
                  /\ p >= q
                  /\ Members(clients')[q] = Members(clients)[p]
       /\ pc = "storing" /\ pc' = "stopped" => StoredIds(file') = Ids(clients)
       /\ pc \in Terminal => file' \in {file, Absent}]_vars

\* C23 witness: a client generated for a target of one was restored by a
\* process with a target of two, which generated the second client and ran
C23_Witness ==
    /\ runs = 2
    /\ pc = "joining"
    /\ bridge_config.target_client_count = 2
    /\ Ids(clients) = <<<<0, 1>>, <<1, 2>>>>
    /\ StoredIds(file) = <<<<0, 1>>>>

C26_StoreFailureSurfaced ==
    /\ [](pc = "stopped" => file = Pickled(Snapshot(clients)))
    /\ [][pc' = "store_failed" /\ pc # "store_failed" =>
             /\ pc \in {"joining", "storing"}
             /\ file' = file
             /\ clients' = IF pc = "joining" /\ delete
                             THEN WithoutDeleted(clients) ELSE clients]_vars

\* C26 witness: pickle.dump failed for a population of two clients, after
\* store() had opened the file
C26_Witness ==
    /\ pc = "store_failed"
    /\ file = Corrupt
    /\ Len(clients) = 2
    /\ running_tasks = 2
    /\ \A j \in Launched : task_state[j] = "done"


\* C27: generation indices are unique within the population.  After any
\* sequence of lifecycles (load, generate, run with or without delete
\* mode, store, restart) no two clients of the population have the same
\* client_index.
C27_UniqueIndices ==
    \A p, q \in DOMAIN clients :
        clients[p]._client_simulation_config.client_index
            = clients[q]._client_simulation_config.client_index => p = q


\* C28: stop ends the launching.  Once stop() has been called while run()
\* is in its staggered start, run() launches no further client task: the
\* clients that had no task at that moment are never started.
C28_StopEndsLaunching ==
    [][(StopRequested /\ InTaskGroup) => running_tasks' = running_tasks]_vars

\* C29: the delete mode removes launched clients only.  When run() drops
\* the deleted clients, the clients at the population positions behind
\* the target, which got no task in this run, all stay in the population,
\* in their order.
C29_DeleteLaunchedOnly ==
    [][(pc = "joining" /\ pc' \in {"storing", "store_failed"} /\ delete) =>
          LET unlaunched == SubSeq(clients, Len(tasks) + 1, Len(clients))
          IN  /\ Len(clients') >= Len(unlaunched)
              /\ SubSeq(clients', Len(clients') - Len(unlaunched) + 1, Len(clients'))
                    = unlaunched]_vars

(***************************************************************************)
(* Further properties of the construction (SpecConstruct).                 *)
(***************************************************************************)
\* the classes derived from RandomBaseSimulationClient
RandomBaseClasses == simulation_client_class_lookup \ {"blank"}

\* C25: static identity clamps.  A Random-Base client that generate()
\* creates has k >= 2 and max_depth in 1 .. 24 whatever the fan-out and
\* depth policies of the template sample; a client that load() restores
\* has the stored client config, k and max_depth included, as it is.
C25_IdentityClamps ==
    pc \in {"loaded", "generated"} =>
        \A p \in DOMAIN clients :
            IF p <= LoadedCount
              THEN clients[p]._config = file.configs[p][1]
              ELSE clients[p].cls \in RandomBaseClasses =>
                     /\ Val(clients[p]._config.k) >= 2
                     /\ Val(clients[p]._config.max_depth) \in 1 .. 24

\* C25 witness: a restored client kept a fan-out of 3 and a depth of 2;
\* behind it one client was generated from the template whose policies
\* sample 1 and 30 and one from the template whose policies reach 0 and -1
C25_Witness ==
    /\ pc = "generated"
    /\ LoadedCount = 1
    /\ Len(clients) = 2
    /\ clients[1]._config.k = Some(3)
    /\ clients[1]._config.max_depth = Some(2)
    /\ \/ /\ clients[2].cls = "skewed_diurnal_approximation"
          /\ clients[2]._config.k = Some(2)
          /\ clients[2]._config.max_depth = Some(24)
       \/ /\ clients[2].cls = "coordinate_gradient"
          /\ clients[2]._config.k = Some(2)
          /\ clients[2]._config.max_depth = Some(1)

\* C30: generate is idempotent and never shrinks the population.  A
\* generate() that finds at least target_client_count clients adds and
\* removes nothing; a generate() keeps the clients it finds, in their
\* order; after it the population has max(loaded count, target) clients,
\* and a second generate() on that population yields the same population.
C30_GenerateIdempotent ==
    /\ [](pc = "generated" =>
             /\ Len(clients) = Max(LoadedCount, bridge_config.target_client_count)
             /\ GenerateClients(clients, bridge_config) = {clients})
    /\ [][pc = "loaded" =>
             /\ Len(clients) >= bridge_config.target_client_count => clients' = clients
             /\ Len(clients') >= Len(clients)
             /\ SubSeq(clients', 1, Len(clients)) = clients]_vars

\* C30 witness: generate() found three loaded clients with a target of
\* one and left them as they were
C30_Witness ==
    /\ pc = "generated"
    /\ bridge_config.target_client_count = 1
    /\ LoadedCount = 3
    /\ Len(clients) = 3
    /\ Snapshot(clients) = file.configs

(***************************************************************************)
(* Further properties of the dropout window (SpecSkew).                    *)
(***************************************************************************)
\* C31: an active dropout window is never extended or restarted.  A call
\* made before the dropout end time of a sensor leaves that end time as it
\* is; the end time changes only in a call that starts a window, to the
\* time of that call plus the period sampled for it; so the end time of a
\* window that started at t with period d is t + d until the next window
\* starts, however many calls are made inside it.
C31_DropoutNotExtended ==
    /\ [](\A i \in Sensors :
             trace[i].dropout # None =>
                _dropout_end_time[i] =
                   Some(Val(trace[i].dropout).start + Val(trace[i].dropout).period))
    /\ [][\A i \in Sensors :
             /\ (_dropout_end_time[i] # None /\ now' < Val(_dropout_end_time[i])) =>
                   /\ _dropout_end_time'[i] = _dropout_end_time[i]
                   /\ trace'[i].dropout = trace[i].dropout
                   /\ trace'[i].what = "dropout"
             /\ _dropout_end_time'[i] # _dropout_end_time[i] =>
                   /\ trace'[i].what = "dropout_start"
                   /\ _dropout_end_time[i] # None => now' >= Val(_dropout_end_time[i])
                   /\ _dropout_end_time'[i] \in
                         {Some(now' + d) :
                            d \in sample_value(Val(skew_config).dropout_period)}]_vars

\* C31 witness: a window of two ticks was started, and a call one tick
\* later, inside it, left its end where it was
C31_Witness ==
    \E i \in Sensors :
        /\ trace[i].what = "dropout"
        /\ trace[i].dropout # None
        /\ Val(trace[i].dropout).period = 2
        /\ now = Val(trace[i].dropout).start + 1
        /\ _dropout_end_time[i] = Some(now + 1)

====
